---- MODULE Spec2Model ----
(***************************************************************************)
(* S-Flow dictation pipeline: the AppController state machine of           *)
(* src/src/main.py, its ProcessingWorker thread, the AudioRecorder of      *)
(* src/src/core/audio_recorder.py and the ApiClient of                     *)
(* src/src/core/api_client.py.                                             *)
(*                                                                         *)
(* Texts are sequences of tokens.  The token "Error" stands for the five   *)
(* characters of that prefix, " " for one whitespace character, every      *)
(* other token for one or more non-blank characters that are not the       *)
(* prefix.  Python values carry their type, because the worker handles     *)
(* tuples where it expects strings.                                        *)
(***************************************************************************)
EXTENDS Integers, Sequences, FiniteSets, TLC

\* ------------------------------------------------------------------ bounds
\* capture sessions (and so utterances and worker threads) explored
MaxSessions == 2
\* chunks the capture callback queues before the recording is stopped
MaxChunks == 1
\* turns of a history handed to the context window directly
MaxTurns == 3

\* ------------------------------------------------------- program constants
MAX_RETRIES == 3
RETRY_DELAY == 1
SampleRate == 44100
DefaultContextChars == 3000

\* ------------------------------------------------------------ Python values
None == [ty |-> "None"]
Str(s) == [ty |-> "str", s |-> s]
Tuple2(a, b) == [ty |-> "tuple", fst |-> a, snd |-> b]

IsStr(v) == v.ty = "str"

\* bool(v): None and the empty string are falsy, a 2-tuple is never empty
Truthy(v) ==
    CASE v.ty = "None" -> FALSE
      [] v.ty = "str" -> v.s # << >>
      [] OTHER -> TRUE

\* str.startswith("Error")
StartsWithError(s) == Len(s) > 0 /\ s[1] = "Error"

IsSpace(tok) == tok = " "

RECURSIVE lstrip(_)
lstrip(s) == IF s # << >> /\ IsSpace(Head(s)) THEN lstrip(Tail(s)) ELSE s

RECURSIVE rstrip(_)
rstrip(s) ==
    IF s # << >> /\ IsSpace(s[Len(s)]) THEN rstrip(SubSeq(s, 1, Len(s) - 1)) ELSE s

\* str.strip()
strip(s) == rstrip(lstrip(s))

\* len(str): the prefix token is five characters, every other token one
TokLen(tok) == IF tok = "Error" THEN 5 ELSE 1

RECURSIVE TextLen(_)
TextLen(s) == IF s = << >> THEN 0 ELSE TokLen(Head(s)) + TextLen(Tail(s))

\* locale_manager.tr: the localized text of a key (or the key itself)
tr(key) == << "tr", key >>

\* the error strings transcribe returns
ErrInvalidKey == << "Error", ": Invalid API Key" >>
ErrRateLimit == << "Error", ": Rate Limit Exceeded" >>
ErrNoConnection == << "Error", ": No Connection" >>
ErrApi == << "Error", ": API Error" >>
ErrTranscription == << "Error", ": Transcription Failed" >>
ErrUnknown == << "Error", ": Unknown" >>

\* ---------------------------------------------------------- remote outcomes
\* One attempt of a remote call either returns a response or raises.
Ok(v) == [k |-> "ok", exc |-> "", val |-> v]
Raise(e) == [k |-> "raise", exc |-> e, val |-> None]

TransientErrors == {"RateLimitError", "APIConnectionError"}

Attempts == 1 .. (MAX_RETRIES + 1)

\* a script: k transient failures of one kind, then always `final`
ScriptOf(k, kind, final) == [i \in Attempts |-> IF i <= k THEN Raise(kind) ELSE final]

\* variant: no credential check in front of the transport
CallApi_unchecked(hasClient, script) == script

\* _call_api / _call_chat: without a client the credential check raises
\* ValueError before the transport is touched
CallApi(hasClient, script) ==
    [i \in Attempts |-> IF hasClient THEN script[i] ELSE Raise("ValueError")]

\* ------------------------------------------------- ApiClient._execute_with_retry
\* func is the wrapped function: attempt number -> outcome of that invocation.
\* The result records what the wrapper returns or raises, how often it invoked
\* func and the waits (seconds) it slept, in order.
\* variant: one retry fewer than MAX_RETRIES
RECURSIVE retry_loop_short(_, _, _)
retry_loop_short(func, retries, waits) ==
    LET out == func[retries + 1] IN
    IF out.k = "ok"
    THEN [k |-> "return", exc |-> "", val |-> out.val,
          calls |-> retries + 1, waits |-> waits]
    ELSE IF out.exc \in TransientErrors /\ retries + 1 < MAX_RETRIES
    THEN retry_loop_short(func, retries + 1,
                          Append(waits, RETRY_DELAY * 2 ^ ((retries + 1) - 1)))
    ELSE [k |-> "raise", exc |-> out.exc, val |-> None,
          calls |-> retries + 1, waits |-> waits]

\* variant: on exhaustion the first error seen is raised, not the last
RECURSIVE retry_loop_first_error(_, _, _)
retry_loop_first_error(func, retries, waits) ==
    LET out == func[retries + 1] IN
    IF out.k = "ok"
    THEN [k |-> "return", exc |-> "", val |-> out.val,
          calls |-> retries + 1, waits |-> waits]
    ELSE IF out.exc \in TransientErrors
    THEN IF retries + 1 > MAX_RETRIES
         THEN [k |-> "raise", exc |-> func[1].exc, val |-> None,
               calls |-> retries + 1, waits |-> waits]
         ELSE retry_loop_first_error(func, retries + 1,
                                     Append(waits, RETRY_DELAY * 2 ^ ((retries + 1) - 1)))
    ELSE [k |-> "raise", exc |-> out.exc, val |-> None,
          calls |-> retries + 1, waits |-> waits]

\* variant: every exception is retried, not only the two transient ones
RECURSIVE retry_loop_retry_all(_, _, _)
retry_loop_retry_all(func, retries, waits) ==
    LET out == func[retries + 1] IN
    IF out.k = "ok"
    THEN [k |-> "return", exc |-> "", val |-> out.val,
          calls |-> retries + 1, waits |-> waits]
    ELSE IF retries + 1 > MAX_RETRIES
    THEN [k |-> "raise", exc |-> out.exc, val |-> None,
          calls |-> retries + 1, waits |-> waits]
    ELSE retry_loop_retry_all(func, retries + 1,
                              Append(waits, RETRY_DELAY * 2 ^ ((retries + 1) - 1)))

\* variant: the wait grows linearly with the retry number
RECURSIVE retry_loop_linear(_, _, _)
retry_loop_linear(func, retries, waits) ==
    LET out == func[retries + 1] IN
    IF out.k = "ok"
    THEN [k |-> "return", exc |-> "", val |-> out.val,
          calls |-> retries + 1, waits |-> waits]
    ELSE IF out.exc \in TransientErrors /\ ~(retries + 1 > MAX_RETRIES)
    THEN retry_loop_linear(func, retries + 1,
                           Append(waits, RETRY_DELAY * (retries + 1)))
    ELSE [k |-> "raise", exc |-> out.exc, val |-> None,
          calls |-> retries + 1, waits |-> waits]

RECURSIVE retry_loop(_, _, _)
retry_loop(func, retries, waits) ==
    IF ~(retries <= MAX_RETRIES)
    THEN [k |-> "return", exc |-> "", val |-> None, calls |-> retries, waits |-> waits]
    ELSE LET out == func[retries + 1] IN
         IF out.k = "ok"
         THEN [k |-> "return", exc |-> "", val |-> out.val,
               calls |-> retries + 1, waits |-> waits]
         ELSE IF out.exc \in TransientErrors
         THEN IF retries + 1 > MAX_RETRIES
              THEN [k |-> "raise", exc |-> out.exc, val |-> None,
                    calls |-> retries + 1, waits |-> waits]
              ELSE retry_loop(func, retries + 1,
                              Append(waits, RETRY_DELAY * 2 ^ ((retries + 1) - 1)))
         ELSE [k |-> "raise", exc |-> out.exc, val |-> None,
               calls |-> retries + 1, waits |-> waits]

execute_with_retry(func) == retry_loop(func, 0, << >>)

\* ------------------------------------------------------- ApiClient.transcribe
\* A duration is the exact quotient frames / rate.
Duration(frames, rate) == [num |-> frames, den |-> rate]
ZeroDuration == [num |-> 0, den |-> 1]

\* the response of the transcription endpoint
Transcription(text) == [text |-> text]

\* variant: the `except APIError` clause in front of the clauses of its
\* subclasses
transcribe_api_error_first(hasClient, frames, script) ==
    LET duration == Duration(frames, SampleRate)
        r == execute_with_retry(CallApi(hasClient, script))
    IN  IF r.k = "return"
        THEN Tuple2(Str(r.val.text), duration)
        ELSE CASE r.exc \in {"AuthenticationError", "RateLimitError",
                             "APIConnectionError", "APIError"} ->
                      Tuple2(Str(ErrApi), ZeroDuration)
               [] r.exc = "ValueError" -> Tuple2(Str(ErrInvalidKey), ZeroDuration)
               [] OTHER -> Tuple2(Str(ErrTranscription), ZeroDuration)

\* transcribe(audio_path): the (text, duration) tuple it returns.  frames is
\* the frame count of the WAV file at audio_path, script the endpoint's
\* behaviour over the attempts.
transcribe(hasClient, frames, script) ==
    LET duration == Duration(frames, SampleRate)
        r == execute_with_retry(CallApi(hasClient, script))
    IN  IF r.k = "return"
        THEN Tuple2(Str(r.val.text), duration)
        ELSE CASE r.exc \in {"AuthenticationError", "ValueError"} ->
                      Tuple2(Str(ErrInvalidKey), ZeroDuration)
               [] r.exc = "RateLimitError" -> Tuple2(Str(ErrRateLimit), ZeroDuration)
               [] r.exc = "APIConnectionError" ->
                      Tuple2(Str(ErrNoConnection), ZeroDuration)
               [] r.exc = "APIError" -> Tuple2(Str(ErrApi), ZeroDuration)
               [] OTHER -> Tuple2(Str(ErrTranscription), ZeroDuration)

\* the I/O one invocation of _call_api performs: past the credential check it
\* opens the audio file and calls the transcription endpoint
CallApiIo(hasClient) == IF hasClient THEN << "open", "transport" >> ELSE << >>

RECURSIVE Repeat(_, _)
Repeat(s, n) == IF n = 0 THEN << >> ELSE s \o Repeat(s, n - 1)

\* the I/O operations of one transcribe call, in order: wave.open reads the
\* file for its duration, then _call_api is invoked under the retry wrapper
transcribe_io(hasClient, script) ==
    << "wave.open" >>
    \o Repeat(CallApiIo(hasClient), execute_with_retry(CallApi(hasClient, script)).calls)

\* ----------------------------------------------------- ApiClient.correct_text
Placeholder == "{{history}}"
NoContextMarker == << "no-context" >>

DefaultCorrectionPrompt == << "correct:", Placeholder >>
DefaultTranslationPrompt == << "translate:", Placeholder, "rules" >>

\* a history entry, {'text': ..., 'is_bot': True}
Turn(text) == [text |-> text, is_bot |-> TRUE]

\* variant: a turn that fills the budget exactly is kept (<= for <)
RECURSIVE context_walk_inclusive(_, _, _, _)
context_walk_inclusive(H, i, B, current_length) ==
    IF i = 0
    THEN << >>
    ELSE IF current_length + TextLen(H[i].text) <= B
         THEN context_walk_inclusive(H, i - 1, B, current_length + TextLen(H[i].text))
              \o << H[i].text >>
         ELSE << >>

\* variant: a turn that does not fit is skipped and the walk goes on
\* (continue for break)
RECURSIVE context_walk_skipping(_, _, _, _)
context_walk_skipping(H, i, B, current_length) ==
    IF i = 0
    THEN << >>
    ELSE IF current_length + TextLen(H[i].text) < B
         THEN context_walk_skipping(H, i - 1, B, current_length + TextLen(H[i].text))
              \o << H[i].text >>
         ELSE context_walk_skipping(H, i - 1, B, current_length)

\* variant: the most recent turn is kept whatever the budget
RECURSIVE context_walk_newest_always(_, _, _, _)
context_walk_newest_always(H, i, B, current_length) ==
    IF i = 0
    THEN << >>
    ELSE IF i = Len(H) \/ current_length + TextLen(H[i].text) < B
         THEN context_walk_newest_always(H, i - 1, B,
                                         current_length + TextLen(H[i].text))
              \o << H[i].text >>
         ELSE << >>

\* the loop over reversed(previous_messages): the texts it keeps, oldest first
RECURSIVE context_walk(_, _, _, _)
context_walk(H, i, B, current_length) ==
    IF i = 0
    THEN << >>
    ELSE IF current_length + TextLen(H[i].text) < B
         THEN context_walk(H, i - 1, B, current_length + TextLen(H[i].text))
              \o << H[i].text >>
         ELSE << >>

context_messages(H, B) == context_walk(H, Len(H), B, 0)

\* "\n".join(f"- {msg_text}" ...)
RECURSIVE join_lines(_)
join_lines(msgs) ==
    IF msgs = << >>
    THEN << >>
    ELSE IF Len(msgs) = 1
         THEN << "- " >> \o msgs[1]
         ELSE << "- " >> \o msgs[1] \o << "NL" >> \o join_lines(Tail(msgs))

\* str.replace("{{history}}", by): every occurrence
RECURSIVE replace_placeholder(_, _)
replace_placeholder(p, by) ==
    IF p = << >>
    THEN << >>
    ELSE (IF Head(p) = Placeholder THEN by ELSE << Head(p) >>)
         \o replace_placeholder(Tail(p), by)

\* variant: the user context is appended in the branch without placeholder
\* only
final_system_prompt_context_in_else(system_prompt, history_text, user_context) ==
    IF \E i \in 1 .. Len(system_prompt) : system_prompt[i] = Placeholder
    THEN replace_placeholder(system_prompt,
             IF history_text # << >> THEN history_text ELSE NoContextMarker)
    ELSE (IF history_text # << >>
          THEN system_prompt \o << "Context History:" >> \o history_text
          ELSE system_prompt)
         \o (IF user_context # << >>
             THEN << "[USER CONTEXT: " >> \o user_context \o << "]" >>
             ELSE << >>)

\* lines 200-214.  The token "Context History:" stands for the label with its
\* line breaks, "[USER CONTEXT: " and "]" for the brackets with theirs.
final_system_prompt(system_prompt, history_text, user_context) ==
    LET withHistory ==
            IF \E i \in 1 .. Len(system_prompt) : system_prompt[i] = Placeholder
            THEN replace_placeholder(system_prompt,
                     IF history_text # << >> THEN history_text ELSE NoContextMarker)
            ELSE IF history_text # << >>
                 THEN system_prompt \o << "Context History:" >> \o history_text
                 ELSE system_prompt
    IN  IF user_context # << >>
        THEN withHistory \o << "[USER CONTEXT: " >> \o user_context \o << "]" >>
        ELSE withHistory

\* the response of the completion endpoint; a malformed one has no choice,
\* no message content or no usage block
ChatResponse(content, wellformed) ==
    [content |-> content, wellformed |-> wellformed,
     prompt_tokens |-> 1, completion_tokens |-> 2]

Usage(response) ==
    {<< "prompt_tokens", response.prompt_tokens >>,
     << "completion_tokens", response.completion_tokens >>}
EmptyUsage == {}

\* the body of the try block: what it returns, or that it raises
correct_try(text, previous_messages, system_prompt, context_chars, user_context, is_translation, hasClient, script) ==
    LET prompt == IF system_prompt = << >>
                  THEN (IF is_translation THEN DefaultTranslationPrompt
                                          ELSE DefaultCorrectionPrompt)
                  ELSE system_prompt
        history_text == join_lines(context_messages(previous_messages, context_chars))
        messages == [system |-> final_system_prompt(prompt, history_text, user_context),
                     user |-> text]
        r == execute_with_retry(CallApi(hasClient, script))
    IN  IF r.k = "raise"
        THEN [k |-> "raise", exc |-> r.exc, val |-> None, calls |-> r.calls,
              waits |-> r.waits, messages |-> messages]
        ELSE IF ~r.val.wellformed
        THEN [k |-> "raise", exc |-> "Exception", val |-> None, calls |-> r.calls,
              waits |-> r.waits, messages |-> messages]
        ELSE [k |-> "return", exc |-> "",
              val |-> Tuple2(Str(strip(r.val.content)), Usage(r.val)),
              calls |-> r.calls, waits |-> r.waits, messages |-> messages]

\* variant: no except handler around the try block
correct_text_unhandled(text, previous_messages, system_prompt, context_chars, user_context, is_translation, hasClient, script) ==
    correct_try(text, previous_messages, system_prompt, context_chars,
                user_context, is_translation, hasClient, script)

\* correct_text: the try block under its `except Exception` handler
correct_text(text, previous_messages, system_prompt, context_chars, user_context, is_translation, hasClient, script) ==
    LET t == correct_try(text, previous_messages, system_prompt, context_chars,
                         user_context, is_translation, hasClient, script)
    IN  IF t.k = "raise"
        THEN [t EXCEPT !.k = "return", !.exc = "", !.val = Tuple2(text, EmptyUsage)]
        ELSE t

\* ===================================================================== state
VARIABLES
    is_processing,  \* AppController.is_processing
    current_mode,   \* AppController.current_mode
    history,        \* AppController.history, the list shared with the workers
    worker,         \* AppController.worker: the latest ProcessingWorker, 0 before the first
    overlay,        \* the text the status overlay shows, << >> when hidden
    client,         \* ApiClient.client is set (a credential is configured)
    settings,       \* AppController.settings, the entries the settings dialog changes
    recording,      \* AudioRecorder.recording
    stream,         \* AudioRecorder.stream: "none", "created", "started" or "closed"
    audio_queue,    \* AudioRecorder.audio_queue: the chunks, each tagged with its session
                    \* and its number in the session
    temp_files,     \* AudioRecorder.temp_files
    session,        \* capture sessions started so far; a recording's path is its session
    workers,        \* the ProcessingWorker threads, by the path of their recording
    eventQueue,     \* queued finished-signal deliveries in the control thread's event loop
    pasted,         \* the calls of TextProcessor.paste_text, in order
    appended,       \* for each history entry, the utterance whose completion appended it
    terminals,      \* per utterance, the terminal outcomes the control context observed
    discarded,      \* the utterances whose queued completion was dropped at delivery
    corrections,    \* the calls of api_client.correct_text by the workers, in order
    startMode,      \* while recording, the mode of the hotkey event that started the capture
    evt,            \* "toggle" when the last step was a recording hotkey's handler
    call            \* the last direct call of an ApiClient method, with its result

vars == << is_processing, current_mode, history, worker, overlay, client, settings, recording,
           stream, audio_queue, temp_files, session, workers, eventQueue, pasted,
           appended, terminals, discarded, corrections, startMode, evt, call >>

controllerVars == << is_processing, current_mode, history, worker, overlay >>
recorderVars == << recording, stream, audio_queue, temp_files, session >>
workerVars == << workers, eventQueue >>
outputVars == << pasted, appended, terminals, discarded >>


Sessions == 1 .. MaxSessions
Modes == {"correction", "translation"}

\* a ProcessingWorker that was never constructed
NoWorker ==
    [pc |-> "none", is_translation |-> FALSE, hasClient |-> FALSE, frames |-> 0,
     user_context |-> << >>, transcribe_client |-> FALSE,
     dispatch_history |-> << >>,
     raw_text |-> None, args |-> << << >>, << >> >>, connected |-> FALSE,
     transcribed |-> FALSE, heard |-> << >>,
     corrected |-> FALSE, rewritten |-> << >>]

NoCall == [fn |-> "none"]

\* settings.json values read at dispatch (main.py 259-263): no custom prompt, the
\* default budget, no user context
SettingsPrompt == << >>
SettingsUserContext == << >>

Init ==
    /\ is_processing = FALSE
    /\ current_mode = "correction"
    /\ history = << >>
    /\ worker = 0
    /\ overlay = tr("ready")
    /\ client \in BOOLEAN
    /\ settings = [user_context |-> SettingsUserContext]
    /\ recording = FALSE
    /\ stream = "none"
    /\ audio_queue = << >>
    /\ temp_files = {}
    /\ session = 0
    /\ workers = [w \in Sessions |-> NoWorker]
    /\ eventQueue = << >>
    /\ pasted = << >>
    /\ appended = << >>
    /\ terminals = [w \in Sessions |-> << >>]
    /\ discarded = {}
    /\ corrections = << >>
    /\ startMode = "none"
    /\ evt = "other"
    /\ call = NoCall

\* ------------------------------------------------ the environment's answers
\* The first attempt that does not fail transiently, 0 when every attempt does.
FinalAttempt(script) ==
    IF \E i \in Attempts : ~(script[i].k = "raise" /\ script[i].exc \in TransientErrors)
    THEN CHOOSE i \in Attempts :
            /\ ~(script[i].k = "raise" /\ script[i].exc \in TransientErrors)
            /\ \A j \in 1 .. (i - 1) :
                   script[j].k = "raise" /\ script[j].exc \in TransientErrors
    ELSE 0

\* the endpoint answers within the retry budget of a client holding a credential
Answers(hasClient, script) ==
    hasClient /\ FinalAttempt(script) # 0 /\ script[FinalAttempt(script)].k = "ok"

Answer(script) == script[FinalAttempt(script)].val

TranscribeFinals ==
    {Ok(Transcription(<< "a" >>)), Raise("AuthenticationError")}

ChatFinals ==
    {Ok(ChatResponse(<< " ", "b", " " >>, TRUE)), Ok(ChatResponse(<< "b" >>, FALSE)),
     Raise("APIError")}

\* the transient failure the remote endpoints show in the pipeline
PipelineTransients == {"RateLimitError"}

\* what the remote endpoints do in the pipeline: an answer at once, or
\* transient failures until the budget is spent (an answer after fewer failures
\* leaves the pipeline in the state of an answer at once)
Scripts(finals) ==
    {ScriptOf(k, kind, f) : k \in {0, MAX_RETRIES + 1}, kind \in PipelineTransients,
                            f \in finals}

\* ============================================================= AudioRecorder
StartOutcomes == {"started", "open_failed", "start_failed"}

\* variant: no `if self.recording: return` in front
start_recording_unguarded(outcome) ==
    /\ audio_queue' = << >>
    /\ temp_files' = temp_files
    /\ recording' = (outcome = "started")
    /\ stream' = CASE outcome = "started" -> "started"
                   [] outcome = "start_failed" -> "created"
                   [] OTHER -> stream
    /\ session' = IF outcome = "started" THEN session + 1 ELSE session

\* variant: the except branch does not reset self.recording
start_recording_stays_recording(outcome) ==
    IF recording
    THEN UNCHANGED recorderVars
    ELSE /\ audio_queue' = << >>
         /\ temp_files' = temp_files
         /\ recording' = TRUE
         /\ stream' = CASE outcome = "started" -> "started"
                        [] outcome = "start_failed" -> "created"
                        [] OTHER -> stream
         /\ session' = IF outcome = "started" THEN session + 1 ELSE session

\* start_recording: the stream opens and starts, sd.InputStream raises, or
\* stream.start() raises on the stream just assigned to self.stream
start_recording(outcome) ==
    IF recording
    THEN UNCHANGED recorderVars
    ELSE /\ audio_queue' = << >>
         /\ temp_files' = temp_files
         /\ recording' = (outcome = "started")
         /\ stream' = CASE outcome = "started" -> "started"
                        [] outcome = "start_failed" -> "created"
                        [] OTHER -> stream
         /\ session' = IF outcome = "started" THEN session + 1 ELSE session

\* what start_recording gives its caller: it has no return statement and
\* catches what opening or starting the stream raises
start_result(outcome) == Ok(None)

\* variant: _save_from_queue without its `if not frames` test
StopResult_no_empty_check(saveOk) ==
    IF ~recording \/ stream = "none" THEN 0 ELSE IF saveOk THEN session ELSE 0

\* the path stop_recording returns, 0 for None: nothing when not recording,
\* when no chunk was queued or when writing the file fails
StopResult(saveOk) ==
    IF ~recording \/ stream = "none"
    THEN 0
    ELSE IF audio_queue = << >> THEN 0 ELSE IF saveOk THEN session ELSE 0

\* variant: only the chunk queued last is written
RECURSIVE concatenate_last(_)
concatenate_last(chunks) ==
    IF chunks = << >> THEN 0
    ELSE IF Len(chunks) = 1 THEN Head(chunks) ELSE concatenate_last(Tail(chunks))

\* np.concatenate(frames, axis=0) in _save_from_queue, by the number of
\* frames of the array written to the WAV file: chunks are the frame counts
\* of the queued blocks, in order
RECURSIVE concatenate(_)
concatenate(chunks) ==
    IF chunks = << >> THEN 0 ELSE Head(chunks) + concatenate(Tail(chunks))

\* variant: the chunk read last is put in front
RECURSIVE drain_lifo(_, _)
drain_lifo(queue, frames) ==
    IF queue = << >> THEN frames
    ELSE drain_lifo(Tail(queue), << Head(queue) >> \o frames)

\* the loop of _save_from_queue: while the queue is not empty its oldest
\* chunk is appended to frames
RECURSIVE drain(_, _)
drain(queue, frames) ==
    IF queue = << >> THEN frames
    ELSE drain(Tail(queue), Append(frames, Head(queue)))

\* the chunks in the file a stop_recording call writes, none without a file
Saved(saveOk) == IF StopResult(saveOk) # 0 THEN drain(audio_queue, << >>) ELSE << >>

\* variant: no test of self.recording and self.stream in front
stop_recording_unguarded(saveOk) ==
    /\ recording' = FALSE
    /\ stream' = "closed"
    /\ audio_queue' = << >>
    /\ temp_files' = IF StopResult(saveOk) # 0
                     THEN temp_files \cup {StopResult(saveOk)}
                     ELSE temp_files
    /\ UNCHANGED session

\* variant: the stream is neither stopped nor closed
stop_recording_keeps_stream(saveOk) ==
    IF ~recording \/ stream = "none"
    THEN UNCHANGED recorderVars
    ELSE /\ recording' = FALSE
         /\ stream' = stream
         /\ audio_queue' = << >>
         /\ temp_files' = IF StopResult(saveOk) # 0
                          THEN temp_files \cup {StopResult(saveOk)}
                          ELSE temp_files
         /\ UNCHANGED session

\* stop_recording with _save_from_queue
stop_recording(saveOk) ==
    IF ~recording \/ stream = "none"
    THEN UNCHANGED recorderVars
    ELSE /\ recording' = FALSE
         /\ stream' = "closed"
         /\ audio_queue' = << >>
         /\ temp_files' = IF StopResult(saveOk) # 0
                          THEN temp_files \cup {StopResult(saveOk)}
                          ELSE temp_files
         /\ UNCHANGED session

\* cleanup: every tracked file is unlinked (a failure is logged) and the list
\* is cleared
cleanup ==
    /\ temp_files' = {}
    /\ UNCHANGED << recording, stream, audio_queue, session >>

\* indata.copy(): the n-th block the callback of a session's stream is given
indata(s, n) == [session |-> s, n |-> n]

\* the sounddevice callback of the running stream queues one chunk
Callback ==
    /\ recording
    /\ stream = "started"
    /\ Len(audio_queue) < MaxChunks
    /\ audio_queue' = Append(audio_queue, indata(session, Len(audio_queue) + 1))
    /\ evt' = "other"
    /\ UNCHANGED << controllerVars, client, settings, recording, stream, temp_files, session,
                    workerVars, outputVars, corrections, startMode, call >>

\* ========================================================== ProcessingWorker
\* variant: run() without the startswith("Error") test of line 40, which hands
\* whatever transcribe returned to correct_text
run_emit_unchecked(raw_text, previous_messages, user_context, is_translation, hasClient, script) ==
    IF Truthy(raw_text)
    THEN LET corrected_text ==
                 correct_text(raw_text, previous_messages, SettingsPrompt,
                              DefaultContextChars, user_context,
                              is_translation, hasClient, script).val
         IN  IF IsStr(raw_text) /\ IsStr(corrected_text)
             THEN [args |-> << raw_text.s, corrected_text.s >>, calls |-> 1]
             ELSE [args |-> << << >>, tr("error_unknown") >>, calls |-> 1]
    ELSE [args |-> << << >>, tr("error_transcription") >>, calls |-> 0]

\* run() from the return of transcribe on: the arguments of the one
\* finished.emit that succeeds, and the number of correct_text calls made.
\* raw_text.startswith raises AttributeError on a value that is no str, and
\* finished is pyqtSignal(str, str): emit raises TypeError on any other
\* argument; both land in the except branch.
run_emit(raw_text, previous_messages, user_context, is_translation, hasClient, script) ==
    IF Truthy(raw_text) /\ ~IsStr(raw_text)
    THEN [args |-> << << >>, tr("error_unknown") >>, calls |-> 0]
    ELSE IF Truthy(raw_text) /\ ~StartsWithError(raw_text.s)
    THEN LET corrected_text ==
                 correct_text(raw_text, previous_messages, SettingsPrompt,
                              DefaultContextChars, user_context,
                              is_translation, hasClient, script).val
         IN  IF IsStr(corrected_text)
             THEN [args |-> << raw_text.s, corrected_text.s >>, calls |-> 1]
             ELSE [args |-> << << >>, tr("error_unknown") >>, calls |-> 1]
    ELSE [args |-> << << >>, IF Truthy(raw_text) THEN raw_text.s
                                                 ELSE tr("error_transcription") >>,
          calls |-> 0]

\* self.history of a worker: the controller's list object itself (main.py 267
\* passes self.history, line 30 stores the reference), so the worker sees
\* the list as it is when it reads it
worker_history(me) == history

\* variant: the worker reaches the client through the controller
\* (controller.api_client) at the time of the call
worker_api_client_of_controller(me) == client

\* self.api_client of a worker: the ApiClient object handed to its
\* constructor, by whether it holds a credential
worker_api_client(me) == me.hasClient

\* the worker thread returns from api_client.transcribe (main.py 38)
WorkerTranscribe(w) ==
    /\ workers[w].pc = "running"
    /\ \E script \in Scripts(TranscribeFinals) :
          LET me == workers[w]
              api_client == worker_api_client(me)
              ok == Answers(api_client, script)
          IN  workers' = [workers EXCEPT ![w] =
                  [me EXCEPT !.pc = "transcribed",
                             !.transcribe_client = api_client,
                             !.raw_text = transcribe(api_client, me.frames, script),
                             !.transcribed = ok,
                             !.heard = IF ok THEN Answer(script).text ELSE << >>]]
    /\ evt' = "other"
    /\ UNCHANGED << controllerVars, client, settings, recorderVars, eventQueue, outputVars,
                    corrections, startMode, call >>

\* variant: the except branch of run() logs and emits nothing
emit_not_in_except(queue, w) == queue

\* self.finished.emit(...) from the worker's thread: the call is queued for
\* the control thread while the signal is connected to the slot
emit(queue, w) == IF workers[w].connected THEN Append(queue, w) ELSE queue

\* The worker thread runs the rest of run() and emits finished; the emission
\* is queued for the control thread while the signal is connected.  run()
\* returns and the thread ends: a worker the controller no longer refers to
\* is gone with it.
WorkerFinish(w) ==
    /\ workers[w].pc = "transcribed"
    /\ \E script \in Scripts(ChatFinals) :
          LET me == workers[w]
              api_client == worker_api_client(me)
              r == run_emit(me.raw_text, worker_history(me), me.user_context, me.is_translation,
                            api_client, script)
              ok == /\ me.transcribed
                    /\ Answers(api_client, script)
                    /\ Answer(script).wellformed
          IN  /\ workers' = [workers EXCEPT ![w] =
                      IF w # worker
                      THEN NoWorker
                      ELSE [me EXCEPT !.pc = "finished",
                                      !.args = r.args,
                                      !.corrected = ok,
                                      !.rewritten = IF ok THEN strip(Answer(script).content)
                                                          ELSE << >>]]
              /\ corrections' = IF r.calls > 0
                                 THEN Append(corrections,
                                             [w |-> w, transcribed |-> me.transcribed])
                                 ELSE corrections
    /\ eventQueue' = emit(eventQueue, w)
    /\ evt' = "other"
    /\ UNCHANGED << controllerVars, client, settings, recorderVars, outputVars, startMode, call >>

\* ============================================================= AppController
\* variant: worker.run() for worker.start(): the transcription call is made
\* in the handler that dispatches
process_audio_blocking(audio_path, frames) ==
    /\ is_processing' = TRUE
    /\ worker' = audio_path
    /\ \E script \in Scripts(TranscribeFinals) :
          workers' = [w \in Sessions |->
              IF w = audio_path
              THEN [NoWorker EXCEPT !.pc = "transcribed",
                                    !.is_translation = (current_mode' = "translation"),
                                    !.hasClient = client,
                                    !.user_context = settings.user_context,
                                    !.frames = frames,
                                    !.raw_text = transcribe(client, frames, script),
                                    !.connected = TRUE]
              ELSE IF w = worker /\ workers[w].pc = "finished"
                   THEN NoWorker
                   ELSE workers[w]]

\* process_audio: the worker is built from the controller's state and started.
\* The assignment to self.worker drops the only reference to the previous
\* worker: when its thread has finished, that object is gone; a thread still
\* running (a cancelled one) runs on.
process_audio(audio_path, frames) ==
    /\ is_processing' = TRUE
    /\ worker' = audio_path
    /\ workers' = [w \in Sessions |->
           IF w = audio_path
           THEN [NoWorker EXCEPT !.pc = "running",
                                 !.is_translation = (current_mode' = "translation"),
                                 !.hasClient = client,
                                 !.user_context = settings.user_context,
                                 !.dispatch_history = history,
                                 !.frames = frames,
                                 !.connected = TRUE]
           ELSE IF w = worker /\ workers[w].pc = "finished"
                THEN NoWorker
                ELSE workers[w]]

\* variant: the toggle handler without its test of is_processing
busy_never == FALSE

\* the test of line 236: a result is awaited
busy == is_processing

toggle_recording ==
    IF busy
    THEN UNCHANGED << is_processing, history, worker, overlay, recorderVars,
                      workerVars, outputVars, startMode >>
    ELSE IF recording
    THEN \E saveOk \in BOOLEAN :
            LET audio_path == StopResult(saveOk)
                frames == Len(audio_queue)
            IN  /\ stop_recording(saveOk)
                /\ IF audio_path # 0
                   THEN /\ overlay' = tr(IF current_mode' = "translation"
                                         THEN "translating" ELSE "recognizing")
                        /\ process_audio(audio_path, frames)
                   ELSE /\ overlay' = << >>
                        /\ UNCHANGED << is_processing, worker, workers >>
                /\ startMode' = "none"
                /\ UNCHANGED << history, eventQueue, outputVars >>
    ELSE \E outcome \in StartOutcomes :
            /\ outcome = "started" => session < MaxSessions
            /\ start_recording(outcome)
            /\ overlay' = tr("recording_started")
            /\ startMode' = IF outcome = "started" THEN current_mode' ELSE startMode
            /\ UNCHANGED << is_processing, history, worker, workerVars, outputVars >>

\* the activation hotkey
ToggleStandard ==
    /\ current_mode' = "correction"
    /\ toggle_recording
    /\ evt' = "toggle"
    /\ UNCHANGED << client, settings, corrections, call >>

\* the translation hotkey
ToggleTranslation ==
    /\ current_mode' = "translation"
    /\ toggle_recording
    /\ evt' = "toggle"
    /\ UNCHANGED << client, settings, corrections, call >>

\* variant: the cancel leaves the signal connected
disconnect_noop(ws, w) == ws

\* worker.finished.disconnect(self.on_processing_finished)
disconnect(ws, w) == [ws EXCEPT ![w].connected = FALSE]

\* the cancellation hotkey
cancel_operation ==
    /\ IF recording
       THEN \E saveOk \in BOOLEAN :
               /\ stop_recording(saveOk)
               /\ overlay' = tr("canceled")
               /\ startMode' = "none"
               /\ UNCHANGED << is_processing, workers, terminals >>
       ELSE IF is_processing
       THEN /\ workers' = disconnect(workers, worker)
            /\ is_processing' = FALSE
            /\ overlay' = tr("canceled")
            /\ terminals' = [terminals EXCEPT ![worker] = Append(@, "Cancelled")]
            /\ UNCHANGED << recorderVars, startMode >>
       ELSE UNCHANGED << is_processing, overlay, workers, terminals, recorderVars,
                         startMode >>
    /\ evt' = "other"
    /\ UNCHANGED << current_mode, history, worker, client, settings, eventQueue, pasted,
                    appended, discarded, corrections, call >>

\* variant: a result is a failure when its text is one of the error strings
\* of map_errors, not by its prefix
Accepted_known_errors(raw_text, corrected_text) ==
    /\ raw_text # << >>
    /\ corrected_text \notin {ErrInvalidKey, ErrRateLimit, ErrNoConnection,
                               ErrTranscription, ErrUnknown}

\* variant: the test of line 281 without its raw_text part
Accepted_any_raw(raw_text, corrected_text) == ~StartsWithError(corrected_text)

\* the test of line 281: the result is a success
Accepted(raw_text, corrected_text) ==
    raw_text # << >> /\ ~StartsWithError(corrected_text)

\* map_errors, applied when the text is one of its keys
MapErrors(error_text) ==
    CASE error_text = ErrInvalidKey -> tr("error_auth")
      [] error_text = ErrRateLimit -> tr("error_rate_limit")
      [] error_text = ErrNoConnection -> tr("error_connection")
      [] error_text = ErrTranscription -> tr("error_transcription")
      [] error_text = ErrUnknown -> tr("error_unknown")
      [] OTHER -> error_text

\* TextProcessor.paste_text: nothing is done for an empty text; otherwise the
\* clipboard copy and the simulated Ctrl+V succeed (pasteOk) or raise, which
\* the method catches and logs: it returns None either way
paste_text(log, w, text, pasteOk) ==
    IF text = << >> THEN log ELSE Append(log, [w |-> w, text |-> text, ok |-> pasteOk])

\* variant: the paste comes before the append and what it raises is not
\* caught, so a failed paste ends the handler
on_processing_finished_paste_first(w, raw_text, corrected_text, pasteOk) ==
    /\ is_processing' = FALSE
    /\ IF Accepted(raw_text, corrected_text)
       THEN /\ overlay' = tr("done")
            /\ pasted' = paste_text(pasted, w, corrected_text, pasteOk)
            /\ IF pasteOk
               THEN /\ history' = Append(history, Turn(corrected_text))
                    /\ appended' = Append(appended,
                           [w |-> w, heard |-> workers[w].heard,
                            corrected |-> workers[w].corrected,
                            rewritten |-> workers[w].rewritten])
               ELSE UNCHANGED << history, appended >>
            /\ terminals' = [terminals EXCEPT ![w] = Append(@, "Done")]
       ELSE /\ overlay' = MapErrors(corrected_text)
            /\ terminals' = [terminals EXCEPT ![w] = Append(@, "Failed")]
            /\ UNCHANGED << history, appended, pasted >>
    /\ UNCHANGED discarded

\* the slot connected to worker w's finished signal
on_processing_finished(w, raw_text, corrected_text, pasteOk) ==
    /\ is_processing' = FALSE
    /\ IF Accepted(raw_text, corrected_text)
       THEN /\ overlay' = tr("done")
            /\ history' = Append(history, Turn(corrected_text))
            /\ appended' = Append(appended,
                   [w |-> w, heard |-> workers[w].heard,
                    corrected |-> workers[w].corrected,
                    rewritten |-> workers[w].rewritten])
            /\ pasted' = paste_text(pasted, w, corrected_text, pasteOk)
            /\ terminals' = [terminals EXCEPT ![w] = Append(@, "Done")]
       ELSE /\ overlay' = MapErrors(corrected_text)
            /\ terminals' = [terminals EXCEPT ![w] = Append(@, "Failed")]
            /\ UNCHANGED << history, appended, pasted >>
    /\ UNCHANGED discarded

\* variant: a queued emission reaches the slot whatever happened since
slot_invoked_always(w) == TRUE

\* PyQt invokes the slot of a queued emission only while the connection made
\* in process_audio stands: after finished.disconnect the emission is ignored
slot_invoked(w) == workers[w].connected

\* the control thread's event loop takes the oldest queued emission
Deliver ==
    /\ eventQueue # << >>
    /\ LET w == Head(eventQueue) IN
          IF slot_invoked(w)
          THEN \E pasteOk \in BOOLEAN :
                  on_processing_finished(w, workers[w].args[1], workers[w].args[2],
                                         pasteOk)
          ELSE /\ discarded' = discarded \cup {w}
               /\ UNCHANGED << is_processing, overlay, history, pasted, appended,
                               terminals >>
    /\ eventQueue' = Tail(eventQueue)
    /\ evt' = "other"
    /\ UNCHANGED << current_mode, worker, client, settings, recorderVars, workers, corrections,
                    startMode, call >>

Next ==
    \/ ToggleStandard
    \/ ToggleTranslation
    \/ cancel_operation
    \/ Callback
    \/ \E w \in Sessions : WorkerTranscribe(w)
    \/ \E w \in Sessions : WorkerFinish(w)
    \/ Deliver

Spec == Init /\ [][Next]_vars

\* Every remote call returns or raises, so a worker thread that can step does,
\* and the control thread's event loop handles what is queued for it.
NextFair ==
    \/ ToggleStandard
    \/ cancel_operation
    \/ Callback
    \/ \E w \in Sessions : WorkerTranscribe(w)
    \/ \E w \in Sessions : WorkerFinish(w)
    \/ Deliver

FairSpec ==
    /\ Init /\ [][NextFair]_vars
    /\ \A w \in Sessions : WF_vars(WorkerTranscribe(w))
    /\ \A w \in Sessions : WF_vars(WorkerFinish(w))
    /\ WF_vars(Deliver)

\* ================================================= direct calls of ApiClient
ApiTexts == {Str(<< "a" >>), Str(<< "Error", "a" >>), Str(<< >>)}
ApiHistories == {<< >>, << Turn(<< "x" >>) >>, << Turn(<< "x" >>), Turn(<< "y", "z" >>) >>}
ApiBudgets == {0, 2, DefaultContextChars}
ApiPrompts == {<< >>, << "custom" >>}

ApiChatFinals ==
    {Ok(ChatResponse(<< " ", "b", " " >>, TRUE)), Ok(ChatResponse(<< "Error", "b" >>, TRUE)),
     Ok(ChatResponse(<< "b" >>, FALSE)),
     Raise("AuthenticationError"), Raise("APIError"), Raise("Exception")}

ApiScripts(finals) ==
    {ScriptOf(k, kind, f) : k \in 0 .. (MAX_RETRIES + 1), kind \in TransientErrors,
                            f \in finals}

\* api_client.correct_text(text, previous_messages, system_prompt, context_chars,
\* is_translation=...) on a client with or without a credential; one call is
\* followed from its arguments to its result
CallCorrectText ==
    /\ call = NoCall
    /\ \E text \in ApiTexts, H \in ApiHistories, prompt \in ApiPrompts,
          B \in ApiBudgets, is_translation \in BOOLEAN, hasClient \in BOOLEAN,
          script \in ApiScripts(ApiChatFinals) :
          call' = [fn |-> "correct_text", text |-> text, hasClient |-> hasClient,
                   script |-> script,
                   result |-> correct_text(text, H, prompt, B, << >>, is_translation,
                                           hasClient, script)]
    /\ UNCHANGED << controllerVars, client, settings, recorderVars, workerVars, outputVars,
                    corrections, startMode, evt >>

\* what one invocation of a wrapped function can do
RetryOutcomes ==
    {Ok("v1"), Ok("v2"), Raise("RateLimitError"), Raise("APIConnectionError"),
     Raise("AuthenticationError"), Raise("BadRequestError"), Raise("ValueError"),
     Raise("Exception")}

\* api_client._execute_with_retry(func) for a function with any behaviour
\* over its invocations
CallExecuteWithRetry ==
    /\ call = NoCall
    /\ \E func \in [Attempts -> RetryOutcomes] :
          call' = [fn |-> "execute_with_retry", func |-> func,
                   result |-> execute_with_retry(func)]
    /\ UNCHANGED << controllerVars, client, settings, recorderVars, workerVars, outputVars,
                    corrections, startMode, evt >>

ApiTranscribeFinals ==
    {Ok(Transcription(<< "a" >>)), Ok(Transcription(<< >>)),
     Raise("AuthenticationError"), Raise("APIError"), Raise("Exception")}

\* api_client.transcribe(audio_path) on a client with or without a credential,
\* for a file of no frames or of one second of audio
CallTranscribe ==
    /\ call = NoCall
    /\ \E hasClient \in BOOLEAN, frames \in {0, SampleRate},
          script \in ApiScripts(ApiTranscribeFinals) :
          call' = [fn |-> "transcribe", hasClient |-> hasClient, frames |-> frames,
                   script |-> script,
                   result |-> transcribe(hasClient, frames, script),
                   retry |-> execute_with_retry(CallApi(hasClient, script)),
                   io |-> transcribe_io(hasClient, script)]
    /\ UNCHANGED << controllerVars, client, settings, recorderVars, workerVars, outputVars,
                    corrections, startMode, evt >>

\* texts of 0 to 3 characters, histories of up to MaxTurns turns and
\* budgets from below zero to beyond the longest history
WindowTexts == {<< >>, << "a" >>, << "b", "b" >>, << "c", "c", "c" >>}
WindowHistories ==
    UNION {[1 .. n -> {Turn(t) : t \in WindowTexts}] : n \in 0 .. MaxTurns}
WindowBudgets == (0 - 1) .. (3 * MaxTurns + 1)

\* the context-window part of correct_text (lines 184-198) for a history and
\* a budget: the turns it keeps and the history_text it joins from them
CallContextWindow ==
    /\ call = NoCall
    /\ \E H \in WindowHistories, B \in WindowBudgets :
          call' = [fn |-> "context_window", H |-> H, B |-> B,
                   included |-> context_messages(H, B),
                   history_text |-> join_lines(context_messages(H, B))]
    /\ UNCHANGED << controllerVars, client, settings, recorderVars, workerVars, outputVars,
                    corrections, startMode, evt >>

\* base templates without, with one and with two placeholders
PromptTemplates ==
    {<< "t" >>, << "t", Placeholder >>, << Placeholder, "t", Placeholder, "s" >>}
PromptHistoryTexts ==
    {join_lines(context_messages(H, DefaultContextChars)) :
        H \in {<< >>, << Turn(<< "x" >>) >>, << Turn(<< "x" >>), Turn(<< "y" >>) >>}}
PromptUserContexts == {<< >>, << "u" >>, << "u", Placeholder >>}

\* the prompt-assembly part of correct_text (lines 200-214) for a template,
\* an assembled history text and a user context
CallAssemblePrompt ==
    /\ call = NoCall
    /\ \E system_prompt \in PromptTemplates, history_text \in PromptHistoryTexts,
          user_context \in PromptUserContexts :
          call' = [fn |-> "final_system_prompt", system_prompt |-> system_prompt,
                   history_text |-> history_text, user_context |-> user_context,
                   result |-> final_system_prompt(system_prompt, history_text,
                                                  user_context)]
    /\ UNCHANGED << controllerVars, client, settings, recorderVars, workerVars, outputVars,
                    corrections, startMode, evt >>

\* blocks of a quarter, half and three quarters of a second
ChunkFrames == {SampleRate \div 4, SampleRate \div 2, 3 * (SampleRate \div 4)}
ChunkSplits == UNION {[1 .. n -> ChunkFrames] : n \in 1 .. (MaxChunks + 3)}

\* a recording of the given blocks saved by _save_from_queue at the
\* recorder's sample rate, then api_client.transcribe on the file
CallTranscribeRecording ==
    /\ call = NoCall
    /\ \E chunks \in ChunkSplits, hasClient \in BOOLEAN,
          script \in Scripts(ApiTranscribeFinals) :
          call' = [fn |-> "transcribe_recording", chunks |-> chunks,
                   hasClient |-> hasClient, script |-> script,
                   result |-> transcribe(hasClient, concatenate(chunks), script)]
    /\ UNCHANGED << controllerVars, client, settings, recorderVars, workerVars, outputVars,
                    corrections, startMode, evt >>

NextApi ==
    \/ CallCorrectText
    \/ CallTranscribeRecording
    \/ CallAssemblePrompt
    \/ CallContextWindow
    \/ CallTranscribe
    \/ CallExecuteWithRetry

SpecApi == Init /\ [][NextApi]_vars

\* ============================================ direct calls of AudioRecorder
\* recorder.start_recording() in any state of the recorder
RecStart ==
    /\ \E outcome \in StartOutcomes :
          /\ outcome = "started" => session < MaxSessions
          /\ start_recording(outcome)
          /\ call' = [fn |-> "start_recording", was_recording |-> recording,
                      result |-> start_result(outcome)]
    /\ evt' = "other"
    /\ UNCHANGED << controllerVars, client, settings, workerVars, outputVars, corrections,
                    startMode >>

\* recorder.stop_recording() in any state of the recorder
RecStop ==
    /\ \E saveOk \in BOOLEAN :
          /\ stop_recording(saveOk)
          /\ call' = [fn |-> "stop_recording", was_recording |-> recording,
                      result |-> Ok(StopResult(saveOk)), saved |-> Saved(saveOk)]
    /\ evt' = "other"
    /\ UNCHANGED << controllerVars, client, settings, workerVars, outputVars, corrections,
                    startMode >>

\* recorder.cleanup() in any state of the recorder
RecCleanup ==
    /\ cleanup
    /\ call' = [fn |-> "cleanup", was_recording |-> recording, result |-> Ok(None)]
    /\ evt' = "other"
    /\ UNCHANGED << controllerVars, client, settings, workerVars, outputVars, corrections,
                    startMode >>

\* the callback of the running stream, for captures of up to MaxChunks + 1
\* chunks
RecCallback ==
    /\ recording
    /\ stream = "started"
    /\ Len(audio_queue) <= MaxChunks
    /\ audio_queue' = Append(audio_queue, indata(session, Len(audio_queue) + 1))
    /\ evt' = "other"
    /\ UNCHANGED << controllerVars, client, settings, recording, stream, temp_files,
                    session, workerVars, outputVars, corrections, startMode, call >>

NextRecorder ==
    \/ RecStart
    \/ RecStop
    \/ RecCleanup
    \/ RecCallback

SpecRecorder == Init /\ [][NextRecorder]_vars

\* ==================================================== the settings dialog
UserContexts == {<< >>, << "u" >>}

\* open_settings with the dialog accepted: a changed API key replaces the
\* controller's ApiClient by a new object, a changed user context is stored
\* in self.settings; any change is saved and shown
open_settings ==
    /\ \E new_api_key \in BOOLEAN, new_user_context \in UserContexts :
          /\ client' = new_api_key
          /\ settings' = [settings EXCEPT !.user_context = new_user_context]
          /\ overlay' = IF new_api_key # client \/ new_user_context # settings.user_context
                        THEN tr("settings_saved")
                        ELSE overlay
    /\ evt' = "other"
    /\ UNCHANGED << is_processing, current_mode, history, worker, recorderVars,
                    workerVars, outputVars, corrections, startMode, call >>

\* one utterance after the other, the dialog accepted at any moment
NextSettings ==
    \/ ToggleStandard
    \/ Callback
    \/ open_settings
    \/ \E w \in Sessions : WorkerTranscribe(w)
    \/ \E w \in Sessions : WorkerFinish(w)
    \/ Deliver

SpecSettings == Init /\ [][NextSettings]_vars

\* ========================================= direct deliveries to the slot
\* the arguments a finished(str, str) emission can carry
SlotRawTexts == {<< >>, << "a" >>, << "Error", "a" >>}
SlotCorrectedTexts == {<< >>, << "b" >>, << "Error", "b" >>}

\* on_processing_finished invoked with any pair of strings while the worker
\* in flight is connected to it
CallSlot ==
    /\ is_processing
    /\ worker # 0
    /\ workers[worker].connected
    /\ \E raw_text \in SlotRawTexts, corrected_text \in SlotCorrectedTexts,
          pasteOk \in BOOLEAN :
          /\ on_processing_finished(worker, raw_text, corrected_text, pasteOk)
          /\ call' = [fn |-> "on_processing_finished", raw_text |-> raw_text,
                      corrected_text |-> corrected_text, pasteOk |-> pasteOk]
    /\ evt' = "other"
    /\ UNCHANGED << current_mode, worker, client, settings, recorderVars, workerVars,
                    corrections, startMode >>

NextSlot ==
    \/ ToggleStandard
    \/ ToggleTranslation
    \/ cancel_operation
    \/ Callback
    \/ CallSlot

SpecSlot == Init /\ [][NextSlot]_vars

\* ==================================================================== claims
Active == {w \in Sessions : workers[w].pc \in {"running", "transcribed"}}
Cancelled(w) == terminals[w] # << >> /\ terminals[w][1] = "Cancelled"
Delivering(w) ==
    eventQueue # << >> /\ Head(eventQueue) = w /\ eventQueue' = Tail(eventQueue)
AppendedFor(w) == {i \in 1 .. Len(appended) : appended[i].w = w}
PastedFor(w) == {i \in 1 .. Len(pasted) : pasted[i].w = w}
CorrectedFor(w) == {i \in 1 .. Len(corrections) : corrections[i].w = w}

\* C1: once a cancel was handled for an in-flight worker, that worker's
\* completion is discarded however it interleaves with the cancel: its
\* delivery leaves history, the paste log, the processing flag and the
\* utterance's outcome as they are, and nothing of it is ever appended or pasted.
C1_CancelledCompletionDiscarded ==
    /\ [](\A w \in Sessions :
             Cancelled(w) => /\ terminals[w] = << "Cancelled" >>
                             /\ AppendedFor(w) = {}
                             /\ PastedFor(w) = {})
    /\ [][\A w \in Sessions :
             (Cancelled(w) /\ Delivering(w)) =>
                 /\ history' = history
                 /\ pasted' = pasted
                 /\ terminals' = terminals
                 /\ is_processing' = is_processing]_vars

\* a cancelled worker's completion, queued before the cancel, was dropped
C1_Witness ==
    \E w \in Sessions :
        /\ w \in discarded
        /\ Cancelled(w)
        /\ history = << >>
        /\ pasted = << >>

\* C2: the control context observes exactly one terminal outcome per
\* dispatched utterance: none while it is the one in flight, exactly one
\* afterwards, never two.
C2_OneTerminalOutcome ==
    \A w \in Sessions :
        /\ Len(terminals[w]) <= 1
        /\ (w = worker /\ is_processing) => terminals[w] = << >>
        /\ (workers[w].pc # "none" /\ ~(w = worker /\ is_processing))
               => Len(terminals[w]) = 1

\* one utterance was cancelled, another failed, and nothing is pending
C2_Witness ==
    \E w1, w2 \in Sessions :
        /\ terminals[w1] = << "Cancelled" >>
        /\ terminals[w2] = << "Failed" >>
        /\ ~is_processing
        /\ eventQueue = << >>
        /\ Active = {}

\* C3 as stated: at most one worker unit is active in every reachable state.
C3_AtMostOneActive == Cardinality(Active) <= 1

\* C3 as amended: at most one active worker is still connected, and it is the
\* current worker of a pipeline that is processing; every other active worker
\* was cancelled.
C3_AtMostOneConnectedActive ==
    /\ Cardinality({w \in Active : workers[w].connected}) <= 1
    /\ \A w \in Active : workers[w].connected => (w = worker /\ is_processing)
    /\ \A w \in Active : ~workers[w].connected => Cancelled(w)

\* a cancelled worker still runs beside the worker of the next utterance
C3_Witness ==
    \E w1, w2 \in Active :
        /\ w1 # w2
        /\ ~workers[w1].connected
        /\ workers[w2].connected

\* C4: a recording hotkey handled while a result is awaited starts no
\* capture, dispatches no worker and leaves the in-flight worker, the
\* recorder, the queue of completions, history and the outputs unchanged.
C4_ToggleRejectedWhileProcessing ==
    [][(is_processing /\ evt' = "toggle") =>
          UNCHANGED << is_processing, history, worker, recorderVars, workerVars,
                       outputVars, corrections >>]_vars

\* a hotkey of the other mode was handled while the worker was in flight
C4_Witness ==
    /\ evt = "toggle"
    /\ is_processing
    /\ worker \in Active
    /\ workers[worker].is_translation # (current_mode = "translation")

\* C5 as stated: the worker dispatched for a recording processes it in the
\* mode of the hotkey event that started the capture.
C5_ModeOfCaptureStart ==
    [][(~is_processing /\ is_processing') =>
          workers'[worker'].is_translation = (startMode = "translation")]_vars

\* C6 as stated: a worker whose transcription succeeded calls correct_text,
\* and when the completion succeeds too and no cancel occurred its utterance
\* ends Done with one turn appended and one paste of the corrected text.
C6_SuccessReachesDone ==
    \A w \in Sessions :
        (workers[w].pc = "finished" /\ workers[w].transcribed) =>
            /\ CorrectedFor(w) # {}
            /\ (workers[w].corrected /\ terminals[w] # << >> /\ ~Cancelled(w)) =>
                   /\ terminals[w] = << "Done" >>
                   /\ Cardinality(AppendedFor(w)) = 1
                   /\ \A i \in PastedFor(w) : pasted[i].text = workers[w].rewritten
                   /\ Cardinality(PastedFor(w)) = 1

\* C7: no worker calls correct_text after a failed transcription, and such an
\* utterance ends Failed (or Cancelled) with the pipeline idle again, nothing
\* appended to history and nothing pasted.
C7_NoCorrectionAfterFailedTranscription ==
    /\ \A i \in 1 .. Len(corrections) : corrections[i].transcribed
    /\ \A w \in Sessions :
          (workers[w].pc = "finished" /\ ~workers[w].transcribed) =>
              /\ terminals[w] \in {<< >>, << "Failed" >>, << "Cancelled" >>}
              /\ (terminals[w] # << >> /\ w = worker) => ~is_processing
              /\ AppendedFor(w) = {}
              /\ PastedFor(w) = {}

\* the endpoint refused a transcription and the failure was delivered
C7_Witness ==
    \E w \in Sessions :
        /\ workers[w].pc = "finished"
        /\ workers[w].hasClient
        /\ ~workers[w].transcribed
        /\ terminals[w] = << "Failed" >>
        /\ ~is_processing
        /\ history = << >>
        /\ pasted = << >>

C9_FallbackPastesTranscription ==
    /\ \A i \in 1 .. Len(pasted) :
          \E j \in AppendedFor(pasted[i].w) :
              pasted[i].text \in {appended[j].rewritten, appended[j].heard}
    /\ \A w \in Sessions :
          (/\ workers[w].pc = "finished"
           /\ workers[w].transcribed
           /\ ~workers[w].corrected
           /\ terminals[w] # << >>
           /\ ~Cancelled(w)) =>
              /\ terminals[w] = << "Done" >>
              /\ \E i \in PastedFor(w) : pasted[i].text = workers[w].heard

\* the completion call of a direct correct_text call succeeds: the client has
\* a credential and the endpoint answers, well-formed, within the retry budget
CompletionSucceeds(c) ==
    /\ Answers(c.hasClient, c.script)
    /\ Answer(c.script).wellformed

\* C10: correct_text never raises; whenever its completion call fails it
\* returns the input text itself with an empty usage record.
C10_CorrectTextFallsBack ==
    call.fn = "correct_text" =>
        /\ call.result.k = "return"
        /\ call.result.val.ty = "tuple"
        /\ ~CompletionSucceeds(call) => call.result.val = Tuple2(call.text, EmptyUsage)
        /\ CompletionSucceeds(call) =>
               call.result.val =
                   Tuple2(Str(strip(Answer(call.script).content)),
                          Usage(Answer(call.script)))

\* a transient failure outlasted the retry budget and the text came back
C10_Witness ==
    /\ call.fn = "correct_text"
    /\ call.hasClient
    /\ FinalAttempt(call.script) = 0
    /\ call.result.calls = MAX_RETRIES + 1
    /\ call.text = Str(<< "a" >>)
    /\ call.result.val = Tuple2(Str(<< "a" >>), EmptyUsage)

\* the wrapped function of a direct _execute_with_retry call fails transiently
\* on each of its first k invocations
TransientThrough(k) ==
    \A i \in 1 .. k : call.func[i].k = "raise" /\ call.func[i].exc \in TransientErrors

RECURSIVE SumSeq(_)
SumSeq(s) == IF s = << >> THEN 0 ELSE Head(s) + SumSeq(Tail(s))

\* C11: a function that fails transiently exactly k times (0 <= k <=
\* MAX_RETRIES) and then succeeds makes the wrapper return that success value
\* after exactly k + 1 invocations, with no error raised.
C11_RetrySucceedsAfterTransients ==
    call.fn = "execute_with_retry" =>
        \A k \in 0 .. MAX_RETRIES :
            (TransientThrough(k) /\ call.func[k + 1].k = "ok") =>
                /\ call.result.k = "return"
                /\ call.result.exc = ""
                /\ call.result.val = call.func[k + 1].val
                /\ call.result.calls = k + 1

\* MAX_RETRIES transient failures of both kinds, then the second value
C11_Witness ==
    /\ call.fn = "execute_with_retry"
    /\ TransientThrough(MAX_RETRIES)
    /\ call.func[1].exc # call.func[MAX_RETRIES].exc
    /\ call.func[MAX_RETRIES + 1] = Ok("v2")
    /\ call.result.val = "v2"
    /\ call.result.calls = MAX_RETRIES + 1

\* C12: a function failing transiently on each of its first MAX_RETRIES + 1
\* invocations makes the wrapper raise the last of these errors after exactly
\* MAX_RETRIES + 1 invocations; a transient error is raised only then, and the
\* function is never invoked more often.
C12_RetryBudgetExhausted ==
    call.fn = "execute_with_retry" =>
        /\ TransientThrough(MAX_RETRIES + 1) =>
               /\ call.result.k = "raise"
               /\ call.result.exc = call.func[MAX_RETRIES + 1].exc
               /\ call.result.calls = MAX_RETRIES + 1
        /\ (call.result.k = "raise" /\ call.result.exc \in TransientErrors) =>
               /\ call.result.calls = MAX_RETRIES + 1
               /\ TransientThrough(MAX_RETRIES + 1)
        /\ call.result.calls <= MAX_RETRIES + 1

\* rate limits on every attempt but the last, which fails to connect
C12_Witness ==
    /\ call.fn = "execute_with_retry"
    /\ \A i \in 1 .. MAX_RETRIES : call.func[i] = Raise("RateLimitError")
    /\ call.func[MAX_RETRIES + 1] = Raise("APIConnectionError")
    /\ call.result.k = "raise"
    /\ call.result.exc = "APIConnectionError"
    /\ call.result.calls = MAX_RETRIES + 1

\* C13: when the function fails with a non-transient error on an attempt the
\* wrapper reaches, that error is raised at once: no further invocation and no
\* wait after it; on the first attempt the function is invoked exactly once.
C13_NonTransientNotRetried ==
    call.fn = "execute_with_retry" =>
        \A j \in Attempts :
            (/\ TransientThrough(j - 1)
             /\ call.func[j].k = "raise"
             /\ call.func[j].exc \notin TransientErrors) =>
                /\ call.result.k = "raise"
                /\ call.result.exc = call.func[j].exc
                /\ call.result.calls = j
                /\ Len(call.result.waits) = j - 1

\* a missing credential on the first attempt of a function that would
\* succeed afterwards
C13_Witness ==
    /\ call.fn = "execute_with_retry"
    /\ call.func[1] = Raise("ValueError")
    /\ call.func[2] = Ok("v1")
    /\ call.result.k = "raise"
    /\ call.result.exc = "ValueError"
    /\ call.result.calls = 1
    /\ call.result.waits = << >>

\* C14: the wait before the n-th retry is RETRY_DELAY * 2^(n-1), one wait
\* precedes every invocation but the first and none follows the last, and
\* the waits of one call sum to at most RETRY_DELAY * (2^MAX_RETRIES - 1),
\* which is 7 seconds.
C14_BackoffSchedule ==
    call.fn = "execute_with_retry" =>
        /\ \A n \in 1 .. Len(call.result.waits) :
               call.result.waits[n] = RETRY_DELAY * 2 ^ (n - 1)
        /\ Len(call.result.waits) = call.result.calls - 1
        /\ Len(call.result.waits) <= MAX_RETRIES
        /\ SumSeq(call.result.waits) <= RETRY_DELAY * (2 ^ MAX_RETRIES - 1)
        /\ RETRY_DELAY * (2 ^ MAX_RETRIES - 1) = 7

\* the budget is spent: waits of 1, 2 and 4 seconds and none after the
\* last failure
C14_Witness ==
    /\ call.fn = "execute_with_retry"
    /\ call.result.k = "raise"
    /\ call.result.calls = MAX_RETRIES + 1
    /\ call.result.waits = << 1, 2, 4 >>
    /\ SumSeq(call.result.waits) = 7

\* what every transcribe call without a credential shows besides its I/O: the
\* invalid-key error, a duration of 0, one invocation of _call_api and no wait
FailsFastWithInvalidKey ==
    /\ call.result.fst = Str(ErrInvalidKey)
    /\ call.result.snd.num = 0
    /\ call.retry.calls = 1
    /\ call.retry.waits = << >>
    /\ \A i \in 1 .. Len(call.io) : call.io[i] # "transport"

\* C15 as stated: without a credential transcribe fails with the invalid-key
\* error before any I/O: no transport call, no retry wait, duration 0.
C15_NoCredentialNoIo ==
    (call.fn = "transcribe" /\ ~call.hasClient) =>
        /\ FailsFastWithInvalidKey
        /\ call.io = << >>

\* C15 as amended: without a credential transcribe fails with the invalid-key
\* error before any network I/O and before opening the audio for upload: the
\* only I/O is the local read of the file for its duration, the transport is
\* never called, no retry wait occurs and the duration reported is 0.
C15_NoCredentialNoTransport ==
    (call.fn = "transcribe" /\ ~call.hasClient) =>
        /\ FailsFastWithInvalidKey
        /\ call.io = << "wave.open" >>

\* no credential, one second of audio, an endpoint that would have answered
C15_Witness ==
    /\ call.fn = "transcribe"
    /\ ~call.hasClient
    /\ call.frames = SampleRate
    /\ call.script[1] = Ok(Transcription(<< "a" >>))
    /\ call.result = Tuple2(Str(ErrInvalidKey), ZeroDuration)
    /\ call.io = << "wave.open" >>

\* the summed text lengths of a sequence of texts
WindowLength(msgs) == SumSeq([i \in 1 .. Len(msgs) |-> TextLen(msgs[i])])

\* the texts of the last n turns of H, oldest first
LastTurns(H, n) == [i \in 1 .. n |-> H[Len(H) - n + i].text]

\* walking from the newest turn, each of the last n turns passes the test
\* running_length + len(text) < B
AllFit(H, n, B) == \A j \in 1 .. n : WindowLength(LastTurns(H, j)) < B

\* C16 as stated: for every history and every budget the text lengths of the
\* included turns sum to strictly less than the budget.
C16_WindowBelowBudget ==
    call.fn = "context_window" => WindowLength(call.included) < call.B

\* C16 as amended: for every positive budget the text lengths of the included
\* turns sum to strictly less than the budget; for a budget of zero or less
\* no turn is included and the sum is 0.
C16_WindowBelowPositiveBudget ==
    call.fn = "context_window" =>
        /\ call.B > 0 => WindowLength(call.included) < call.B
        /\ call.B <= 0 => call.included = << >> /\ WindowLength(call.included) = 0

\* a window one character short of its budget that left an older turn out
C16_Witness ==
    /\ call.fn = "context_window"
    /\ call.B > 1
    /\ Len(call.included) >= 2
    /\ Len(call.included) < Len(call.H)
    /\ WindowLength(call.included) = call.B - 1

\* C17: the included turns are the longest suffix of the history, in the
\* history's order and each whole, whose turns all pass the test
\* running_length + len(text) < B on the walk from the newest; the walk ends
\* at the first turn that fails, also when an older one would fit.
C17_WindowIsLongestFittingSuffix ==
    call.fn = "context_window" =>
        \E n \in 0 .. Len(call.H) :
            /\ call.included = LastTurns(call.H, n)
            /\ AllFit(call.H, n, call.B)
            /\ n < Len(call.H) => ~AllFit(call.H, n + 1, call.B)

\* the middle turn is too long and the oldest, which would fit, is left out
C17_Witness ==
    /\ call.fn = "context_window"
    /\ Len(call.H) = 3
    /\ call.included = << call.H[3].text >>
    /\ TextLen(call.H[3].text) + TextLen(call.H[2].text) >= call.B
    /\ TextLen(call.H[3].text) + TextLen(call.H[1].text) < call.B

\* C18: for a budget of zero or less, with any history, and for the empty
\* history, with any budget, the assembled history text is the empty string.
C18_EmptyWindow ==
    (call.fn = "context_window" /\ (call.B <= 0 \/ call.H = << >>)) =>
        /\ call.included = << >>
        /\ call.history_text = << >>

\* a budget of zero against a history whose newest turn has an empty text
C18_Witness ==
    /\ call.fn = "context_window"
    /\ call.B = 0
    /\ Len(call.H) = MaxTurns
    /\ call.H[Len(call.H)].text = << >>
    /\ call.history_text = << >>

\* the concatenation of a sequence of sequences
RECURSIVE Concat(_)
Concat(ss) == IF ss = << >> THEN << >> ELSE Head(ss) \o Concat(Tail(ss))

\* the reference prompt: template p, assembled history text h, user context u
ReferencePrompt(p, h, u) ==
    LET slots == {i \in 1 .. Len(p) : p[i] = Placeholder}
        body == IF slots # {}
                THEN Concat([i \in 1 .. Len(p) |->
                                IF i \in slots
                                THEN (IF h = << >> THEN NoContextMarker ELSE h)
                                ELSE << p[i] >>])
                ELSE IF h = << >> THEN p ELSE p \o << "Context History:" >> \o h
    IN  IF u = << >> THEN body ELSE body \o << "[USER CONTEXT: " >> \o u \o << "]" >>

\* C19: the assembled prompt is the reference prompt: a placeholder in the
\* template is replaced by the history text, or by the no-context marker when
\* that text is empty; a template without placeholder gets the history text
\* as a labelled trailing block only when it is not empty; a user context
\* that is not empty comes last, bracketed and labelled, in both cases.
C19_PromptAssembly ==
    call.fn = "final_system_prompt" =>
        /\ call.result =
               ReferencePrompt(call.system_prompt, call.history_text, call.user_context)
        /\ call.user_context = << >> =>
               \A i \in 1 .. Len(call.result) : call.result[i] # "[USER CONTEXT: "
        /\ call.user_context # << >> =>
               /\ call.result[Len(call.result)] = "]"
               /\ \E i \in 1 .. Len(call.result) : call.result[i] = "[USER CONTEXT: "

\* a template with a placeholder, no history and a user context: the marker
\* stands where the placeholder was and the user context comes last
C19_Witness ==
    /\ call.fn = "final_system_prompt"
    /\ call.system_prompt = << "t", Placeholder >>
    /\ call.history_text = << >>
    /\ call.user_context = << "u" >>
    /\ call.result = << "t" >> \o NoContextMarker \o << "[USER CONTEXT: ", "u", "]" >>

\* C20 as stated: every stream start_recording opened is released, on every
\* exit path: whenever no capture is active the recorder holds no stream that
\* was opened and not stopped and closed, also when the stream was opened
\* and then failed to start.
C20_StreamAlwaysReleased ==
    ~recording => stream \in {"none", "closed"}

\* C21 as stated: at most one input stream on the device is open at a time:
\* a capture session opens its stream only when the recorder holds no stream
\* that is still open, whatever starts, stops, cancels and failed starts
\* came before.
C21_OneOpenStream ==
    [][session' # session => stream \in {"none", "closed"}]_vars

\* a step that is a direct call of recorder method fn
Calls(fn) == call' # call /\ call'.fn = fn

\* C22 as stated: start_recording called while a capture is active fails
\* with AlreadyRecording, opens no second stream and leaves the session and
\* its queued chunks unchanged.
C22_StartWhileRecordingFails ==
    [][(recording /\ Calls("start_recording")) =>
          /\ call'.result = Raise("AlreadyRecording")
          /\ UNCHANGED recorderVars]_vars

\* C22 as amended: start_recording called while a capture is active returns
\* None without raising or reporting anything, opens no second stream and
\* leaves the session and its queued chunks unchanged.
C22_StartWhileRecordingIsNoOp ==
    [][(recording /\ Calls("start_recording")) =>
          /\ call'.result = Ok(None)
          /\ UNCHANGED recorderVars]_vars

\* start_recording was called during a capture that had queued a chunk
C22_Witness ==
    /\ call.fn = "start_recording"
    /\ call.was_recording
    /\ recording
    /\ stream = "started"
    /\ audio_queue # << >>

\* C25: stop_recording called when not recording returns None, does not
\* raise and changes no recorder state, however often it is called in a row.
C25_StopWhenIdleIsNoOp ==
    /\ []((call.fn = "stop_recording" /\ ~call.was_recording) =>
             (call.result = Ok(0) /\ ~recording))
    /\ [][(~recording /\ Calls("stop_recording")) =>
             /\ call'.result = Ok(0)
             /\ UNCHANGED recorderVars]_vars

\* stop_recording was called after a start that failed on stream.start()
C25_Witness ==
    /\ call.fn = "stop_recording"
    /\ ~call.was_recording
    /\ call.result = Ok(0)
    /\ stream = "created"
    /\ ~recording

\* C23 as stated: a device that fails to open or start is reported to the
\* caller of start_recording, which then does not go on as if recording had
\* started, and the recorder is not left with a stream held open while not
\* recording.
C23_StartFailureReported ==
    /\ overlay = tr("recording_started") => recording
    /\ ~recording => stream # "created"

\* C24: a recording hotkey handled while idle either starts a capture on a
\* started stream or, when the device fails, leaves the system idle (not
\* recording, not processing); in both cases it is a start attempt, not a
\* stop: no file is written and no worker is dispatched.
C24_FailedStartReturnsToIdle ==
    [][(~recording /\ ~is_processing /\ evt' = "toggle") =>
          /\ ~is_processing'
          /\ recording' <=> (stream' = "started" /\ session' = session + 1)
          /\ ~recording' => session' = session
          /\ UNCHANGED << worker, workers, temp_files, history, eventQueue >>]_vars

\* the start of a second capture failed on stream.start(): the system is idle
C24_Witness ==
    /\ evt = "toggle"
    /\ session >= 1
    /\ stream = "created"
    /\ ~recording
    /\ ~is_processing

\* C26: a recording hotkey that stops a capture with no chunk queued returns
\* the pipeline to idle silently: the stream is released, no file is written,
\* no worker is dispatched, no remote call is made, the overlay is hidden
\* without a notification and history is unchanged.
C26_EmptyCaptureIsSilent ==
    [][(recording /\ audio_queue = << >> /\ evt' = "toggle") =>
          /\ ~recording'
          /\ stream' = "closed"
          /\ ~is_processing'
          /\ overlay' = << >>
          /\ UNCHANGED << worker, workers, temp_files, history, eventQueue,
                          corrections, outputVars >>]_vars

\* a capture was stopped by a hotkey and nothing of it exists: no file, no
\* worker, the overlay hidden
C26_Witness ==
    /\ evt = "toggle"
    /\ session >= 1
    /\ session \notin temp_files
    /\ workers[session].pc = "none"
    /\ stream = "closed"
    /\ overlay = << >>
    /\ ~recording
    /\ ~is_processing

\* C27: a cancel handled while recording takes the pipeline to idle with the
\* capture discarded: the stream is released, the queue emptied, no worker
\* dispatched and history unchanged; and since a worker is only ever created
\* by the recording hotkey for the capture it stops, no transcription or
\* correction call is ever made for the cancelled capture.
C27_CancelWhileRecordingDiscards ==
    /\ [][(recording /\ ~recording' /\ evt' # "toggle") =>
             /\ stream' = "closed"
             /\ audio_queue' = << >>
             /\ ~is_processing'
             /\ overlay' = tr("canceled")
             /\ UNCHANGED << worker, workers, history, eventQueue, corrections,
                             outputVars >>]_vars
    /\ [][\A w \in Sessions :
             (workers[w].pc = "none" /\ workers'[w].pc # "none") =>
                 (recording /\ w = session /\ evt' = "toggle")]_vars

\* a capture with audio was cancelled: its file was written, and no worker
\* exists or ever reported for it
C27_Witness ==
    /\ session >= 1
    /\ session \in temp_files
    /\ workers[session].pc = "none"
    /\ terminals[session] = << >>
    /\ overlay = tr("canceled")
    /\ stream = "closed"
    /\ ~recording
    /\ ~is_processing

\* C28 as stated: the temp audio of an utterance exists only while the
\* utterance is the one in flight: it is gone once its remote call completed,
\* once it was cancelled and at once when a capture is discarded by cancel, so
\* the live temp files do not grow with the number of utterances.
C28_TempAudioReleased ==
    /\ \A w \in temp_files : w = worker /\ is_processing
    /\ Cardinality(temp_files) <= 1

\* C29: the remote calls and their backoff waits run in the worker only: the
\* handler that dispatches a worker makes no call, a step in which a worker
\* makes a call changes nothing of the controller, the recorder or the
\* outputs, and a cancel handled while the current worker is inside a call
\* takes the pipeline to idle at once, the worker still being where it was.
C29_RemoteCallsOffControlContext ==
    /\ [][\A w \in Sessions :
             workers[w].pc = "none" => workers'[w].pc \in {"none", "running"}]_vars
    /\ [][(\/ corrections' # corrections
            \/ \E w \in Active : workers'[w].pc # workers[w].pc) =>
             UNCHANGED << controllerVars, recorderVars, outputVars >>]_vars
    /\ [][(is_processing /\ worker \in Active /\ ~is_processing') =>
             /\ workers'[worker].pc = workers[worker].pc
             /\ terminals'[worker] = << "Cancelled" >>
             /\ overlay' = tr("canceled")]_vars

\* the pipeline is idle after a cancel while the only worker is still inside
\* its transcription call
C29_Witness ==
    /\ worker # 0
    /\ Active = {worker}
    /\ workers[worker].pc = "running"
    /\ Cancelled(worker)
    /\ overlay = tr("canceled")
    /\ ~is_processing
    /\ ~recording

\* the overlay shows the notification of a failure
FailureShown ==
    overlay \notin {tr("ready"), tr("recording_started"), tr("canceled"), tr("done"),
                    tr("translating"), tr("recognizing"), << >>}

\* C30 as stated: the notification shown for an utterance whose transcription
\* failed carries the kind of that failure (invalid credential, rate limit,
\* no connection, transcription failed), not a generic one, and no failure
\* notification is shown for a cancelled utterance.
C30_FailureNotificationHasKind ==
    \A w \in Sessions :
        /\ (/\ w = worker
            /\ workers[w].pc = "finished"
            /\ ~workers[w].transcribed
            /\ terminals[w] = << "Failed" >>
            /\ FailureShown) => overlay = MapErrors(workers[w].raw_text.fst.s)
        /\ (w = worker /\ Cancelled(w)) => ~FailureShown

\* C31: when the slot accepts a result, the turn is appended to history and
\* the pipeline is idle whether the paste succeeded or raised; no step ever
\* removes or changes a turn of history, so a failed paste is never rolled
\* back.
C31_FailedPasteKeepsHistory ==
    /\ [][(Calls("on_processing_finished")
            /\ Accepted(call'.raw_text, call'.corrected_text)) =>
             /\ history' = Append(history, Turn(call'.corrected_text))
             /\ ~is_processing'
             /\ terminals'[worker] = << "Done" >>
             /\ overlay' = tr("done")]_vars
    /\ [][/\ Len(history') >= Len(history)
          /\ SubSeq(history', 1, Len(history)) = history]_vars

\* a result was accepted, its paste failed, and a later utterance is being
\* recorded with the turn still in history
C31_Witness ==
    /\ \E i \in 1 .. Len(pasted) :
          /\ ~pasted[i].ok
          /\ pasted[i].w = 1
          /\ history[1] = Turn(pasted[i].text)
    /\ terminals[1] = << "Done" >>
    /\ ~is_processing
    /\ recording
    /\ session = 2

\* the values a worker was constructed with
Request(me) ==
    << me.hasClient, me.user_context, me.is_translation, me.frames >>

C34_StaleCompletionWritesNothing ==
    /\ [][(is_processing /\ worker \in Active /\ ~Cancelled(worker)) =>
             (is_processing' \/ terminals'[worker] = << "Cancelled" >>)]_vars
    /\ [][\A w \in Sessions :
             (Delivering(w) /\ (w # worker \/ Cancelled(w))) =>
                 UNCHANGED << is_processing, history, overlay, pasted, appended,
                              terminals >>]_vars
    /\ [][history' # history =>
             (Delivering(worker) /\ ~Cancelled(worker))]_vars

\* the completion of a cancelled worker, queued before the cancel, was
\* dropped while the next utterance's worker was in its transcription call
C34_Witness ==
    /\ 1 \in discarded
    /\ Cancelled(1)
    /\ worker = 2
    /\ workers[2].pc = "running"
    /\ is_processing
    /\ eventQueue = << >>
    /\ evt = "other"
    /\ history = << >>

\* the class of the failure of a transcription call, "none" when it succeeds:
\* no credential, else what the endpoint raises on the first attempt that is
\* not a transient failure, else the transient failure that spent the budget
FailureClass(hasClient, script) ==
    IF ~hasClient THEN "NoCredential"
    ELSE IF FinalAttempt(script) = 0 THEN script[MAX_RETRIES + 1].exc
    ELSE IF script[FinalAttempt(script)].k = "ok" THEN "none"
    ELSE script[FinalAttempt(script)].exc

\* the taxonomy value the claim fixes for a failure class
TaxonomyText(class) ==
    CASE class \in {"NoCredential", "AuthenticationError"} -> ErrInvalidKey
      [] class = "RateLimitError" -> ErrRateLimit
      [] class = "APIConnectionError" -> ErrNoConnection
      [] class = "APIError" -> ErrApi
      [] OTHER -> ErrTranscription

RECURSIVE Gcd(_, _)
Gcd(a, b) == IF b = 0 THEN a ELSE Gcd(b, a % b)

\* a quotient in lowest terms
Lowest(q) ==
    [num |-> q.num \div Gcd(q.num, q.den), den |-> q.den \div Gcd(q.num, q.den)]

\* the call's transcription succeeded
TranscribeSucceeded(c) == FailureClass(c.hasClient, c.script) = "none"

QueuedFor(w) == {i \in 1 .. Len(eventQueue) : eventQueue[i] = w}

\* C37: with every remote call returning or raising, whenever the processing
\* flag is set it is cleared later, after which a recording hotkey is
\* accepted again; a worker's completion is queued at most once, only when
\* its run() has ended, and never again once it was handled.
C37_ProcessingEventuallyCleared ==
    /\ is_processing ~> ~is_processing
    /\ [](\A w \in Sessions :
             /\ Cardinality(QueuedFor(w)) <= 1
             /\ QueuedFor(w) # {} =>
                   /\ workers[w].pc \in {"finished", "none"}
                   /\ w \notin discarded
                   /\ terminals[w] \in {<< >>, << "Cancelled" >>})

\* the flag set for an utterance was cleared by the delivery of its worker's
\* one completion, after a failed transcription
C37_Witness ==
    /\ worker # 0
    /\ workers[worker].pc = "finished"
    /\ ~workers[worker].transcribed
    /\ terminals[worker] = << "Failed" >>
    /\ worker \notin discarded
    /\ eventQueue = << >>
    /\ ~is_processing

\* C38: every queued chunk was delivered in the current session, the n-th in
\* place n, and the queue is empty whenever the recorder is not recording; a
\* stop_recording call that writes a file writes exactly the chunks queued in
\* its session, oldest first, and every stop_recording call of a recording
\* leaves the queue empty, also when the file could not be written.
C38_RecordingHoldsOwnChunksInOrder ==
    /\ [](/\ \A i \in 1 .. Len(audio_queue) : audio_queue[i] = indata(session, i)
          /\ ~recording => audio_queue = << >>)
    /\ [][(recording /\ Calls("stop_recording")) =>
             /\ audio_queue' = << >>
             /\ call'.result # Ok(0) =>
                   /\ call'.saved = audio_queue
                   /\ \A i \in 1 .. Len(call'.saved) :
                         call'.saved[i] = indata(session, i)]_vars

\* the second session's file holds its own two chunks in order, after a
\* first session with a chunk
C38_Witness ==
    /\ call.fn = "stop_recording"
    /\ session = 2
    /\ 1 \in temp_files
    /\ call.saved = << indata(2, 1), indata(2, 2) >>
    /\ audio_queue = << >>

====
